---- MODULE Spec2Model ----
(***************************************************************************)
(* Model of scs-mails.py: the UDM dump parser (readUDM), the name           *)
(* normalizer (normalizeName, nameMatch) and the roster/directory merge     *)
(* (udmMail, driven by main).                                               *)
(*                                                                          *)
(* A Python string is a sequence of one-character strings, so that         *)
(* slicing, stripping and character replacement are computed character by  *)
(* character.  The empty string "" is <<>>.  None (for usr) is 0; a record *)
(* reference is its 1-based position in udm.  A character outside ASCII   *)
(* is written as its code point, "U+00E4" for a with diaeresis.            *)
(***************************************************************************)
EXTENDS Integers, Sequences, FiniteSets, TLC

VARIABLES
    file,     \* readUDM: the lines of the UDM dump, each with its line end
    pos,      \* readUDM: 1-based position of the next line of file to read
    udm,      \* readUDM: the list of UdmUser records built so far
    usr,      \* readUDM: the active record (index into udm), 0 for None
    users,    \* main: the list of MailUser objects from parseOrgData
    visited,  \* main: the users (indexes into users) udmMail has run for
    pc,       \* "readUDM" | "udmMail" | "normalizeName"
    nmIn,     \* normalizeName: the argument nm
    nmOut     \* normalizeName: <<>> before the call, <<result>> after it

vars == <<file, pos, udm, usr, users, visited, pc, nmIn, nmOut>>

----------------------------------------------------------------------------
(* Bounds of the model.                                                    *)

MaxLines == 4     \* SpecUDM: lines in an arbitrary dump
MaxRecs == 2      \* Spec: record blocks in a well-formed dump
MaxUsers == 2     \* Spec: roster entries
MaxNameLen == 4   \* SpecNorm: characters in a name

----------------------------------------------------------------------------
(* Python string and list primitives.                                      *)

Range(s) == {s[i] : i \in DOMAIN s}

Min(a, b) == IF a < b THEN a ELSE b

\* s[a:b] for 0 <= a, 0 <= b
Slice(s, a, b) ==
    IF a >= Min(b, Len(s)) THEN <<>> ELSE SubSeq(s, a + 1, Min(b, Len(s)))

\* s[a:] for 0 <= a
From(s, a) == IF a >= Len(s) THEN <<>> ELSE SubSeq(s, a + 1, Len(s))

RECURSIVE LStrip(_, _)
LStrip(s, chars) ==
    IF s # <<>> /\ Head(s) \in chars THEN LStrip(Tail(s), chars) ELSE s

RECURSIVE RStrip(_, _)
RStrip(s, chars) ==
    IF s # <<>> /\ s[Len(s)] \in chars
    THEN RStrip(SubSeq(s, 1, Len(s) - 1), chars)
    ELSE s

\* s.strip(chars)
Strip(s, chars) == RStrip(LStrip(s, chars), chars)

\* s.replace(old, new) for a one-character old
RECURSIVE Replace(_, _, _)
Replace(s, old, new) ==
    IF s = <<>> THEN <<>>
    ELSE (IF Head(s) = old THEN new ELSE <<Head(s)>>)
         \o Replace(Tail(s), old, new)

\* position of the first x in s, 0 if there is none
RECURSIVE IndexFrom(_, _, _)
IndexFrom(s, x, i) ==
    IF i > Len(s) THEN 0
    ELSE IF s[i] = x THEN i
    ELSE IndexFrom(s, x, i + 1)

\* l.remove(x) for x in l: drops the first occurrence
ListRemove(l, x) ==
    LET i == IndexFrom(l, x, 1)
    IN  SubSeq(l, 1, i - 1) \o SubSeq(l, i + 1, Len(l))

\* l.insert(0, x)
ListInsertFront(l, x) == <<x>> \o l

NoDup(l) == \A i, j \in DOMAIN l : i # j => l[i] # l[j]

----------------------------------------------------------------------------
(* normalizeName and nameMatch.                                            *)

DrPrefix == <<"D", "r", ".">>

\* the nm.replace(old, new) calls of normalizeName, in source order
ReplaceTable ==
    << <<"U+00E4", <<"a", "e">> >>,   \* latin small letter a with diaeresis
       <<"U+00F6", <<"o", "e">> >>,   \* latin small letter o with diaeresis
       <<"U+00FC", <<"u", "e">> >>,   \* latin small letter u with diaeresis
       <<"U+00C4", <<"A", "e">> >>,   \* latin capital letter a with diaeresis
       <<"U+00D6", <<"O", "e">> >>,   \* latin capital letter o with diaeresis
       <<"U+00DC", <<"U", "e">> >>,   \* latin capital letter u with diaeresis
       <<"U+00DF", <<"s", "s">> >>,   \* latin small letter sharp s
       <<"U+00E9", <<"e">> >>,   \* latin small letter e with acute
       <<"U+00E8", <<"e">> >>,   \* latin small letter e with grave
       <<"U+00EB", <<"e">> >>,   \* latin small letter e with diaeresis
       <<"U+00E1", <<"a">> >>,   \* latin small letter a with acute
       <<"U+00E5", <<"a">> >>,   \* latin small letter a with ring above
       <<"U+00E6", <<"a", "e">> >>,   \* latin small letter ae
       <<"U+0153", <<"o", "e">> >>,   \* latin small ligature oe
       <<"U+00F8", <<"o">> >>,   \* latin small letter o with stroke
       <<"U+0133", <<"i", "j">> >>,   \* latin small ligature ij
       <<"U+00FF", <<"y">> >>,   \* latin small letter y with diaeresis
       <<"U+00FD", <<"y">> >>,   \* latin small letter y with acute
       <<"U+017E", <<"z">> >>,   \* latin small letter z with caron
       <<"U+0161", <<"s">> >>,   \* latin small letter s with caron
       <<"U+010D", <<"c">> >>,   \* latin small letter c with caron
       <<"U+00E7", <<"c">> >>,   \* latin small letter c with cedilla
       <<"U+00F1", <<"n">> >>,   \* latin small letter n with tilde
       <<"U+0144", <<"n">> >>,   \* latin small letter n with acute
       <<"U+0142", <<"l">> >>,   \* latin small letter l with stroke
       <<"-", <<" ">> >> >>

\* the characters the replace calls look for
ReplaceChars == {ReplaceTable[k][1] : k \in DOMAIN ReplaceTable}

\* the replace call that looks for the character c
ReplaceIndex == [c \in ReplaceChars |->
                    CHOOSE k \in DOMAIN ReplaceTable : ReplaceTable[k][1] = c]

\* the replace calls from the k-th on, applied one after the other; a call
\* whose character is not in s leaves s as it is and is passed over
RECURSIVE ReplaceFrom(_, _)
ReplaceFrom(s, k) ==
    LET due == {ReplaceIndex[s[i]] : i \in {j \in DOMAIN s : s[j] \in ReplaceChars}}
        left == {j \in due : j >= k}
        next == CHOOSE j \in left : \A l \in left : j <= l
    IN  IF left = {} THEN s
        ELSE ReplaceFrom(Replace(s, ReplaceTable[next][1], ReplaceTable[next][2]),
                         next + 1)

normalizeName(nm) ==
    LET nm1 == IF Slice(nm, 0, 3) = DrPrefix THEN From(nm, 3) ELSE nm
        nm2 == Strip(nm1, {" "})
    IN  ReplaceFrom(nm2, 1)

nameMatchExact(nm1, nm2) == nm1 = nm2

nameMatch(nm1, nm2) ==
    \/ nm1 = nm2
    \/ normalizeName(nm1) = normalizeName(nm2)

----------------------------------------------------------------------------
(* MailUser and UdmUser.                                                   *)

\* MailUser(ghnm, name)
MailUser(ghnm, name) ==
    [ghnm |-> ghnm, name |-> name, ucsnm |-> <<>>, mls |-> <<>>]

\* UdmUser(uid): name defaults to "", gecos is set from name
UdmUser(uid) ==
    [uid |-> uid, name |-> <<>>, gecos |-> <<>>, mls |-> <<>>]

----------------------------------------------------------------------------
(* readUDM.                                                                *)

None == 0

DNKey == <<"D", "N", ":", " ">>
UidKey == <<"u", "i", "d", "=">>
DisplayNameKey == <<"d", "i", "s", "p", "l", "a", "y", "N", "a", "m", "e", ":">>
MailForwardKey == <<"m", "a", "i", "l", "F", "o", "r", "w", "a", "r", "d", "A", "d", "d", "r", "e", "s", "s", ":">>
EMailKey == <<"e", "-", "m", "a", "i", "l", ":">>
GecosKey == <<"g", "e", "c", "o", "s", ":">>

\* a mutant of uidMatch: the group runs to the last comma, as with uid=(.*),
uidMatchGreedy(s) ==
    LET rest == From(s, 4)
        last == IF "," \in Range(rest)
                THEN CHOOSE i \in DOMAIN rest :
                         rest[i] = "," /\ \A j \in DOMAIN rest : rest[j] = "," => j <= i
                ELSE 0
    IN  IF Slice(s, 0, 4) = UidKey /\ last > 0
        THEN [ok |-> TRUE, group |-> SubSeq(rest, 1, last - 1)]
        ELSE [ok |-> FALSE, group |-> <<>>]

\* re.compile(r'uid=([^,]*),').match(s): anchored at the start of s; the
\* group is what stands between uid= and the first comma after it
uidMatch(s) ==
    LET rest == From(s, 4)
        comma == IndexFrom(rest, ",", 1)
    IN  IF Slice(s, 0, 4) = UidKey /\ comma > 0
        THEN [ok |-> TRUE, group |-> SubSeq(rest, 1, comma - 1)]
        ELSE [ok |-> FALSE, group |-> <<>>]

\* a mutant of newRecord: a DN line without a match leaves usr as it was
newRecordKeepUsr(recs, cur, ln) ==
    IF Slice(ln, 0, 4) = DNKey
    THEN LET m == uidMatch(From(ln, 4))
         IN  IF m.ok
             THEN [udm |-> Append(recs, UdmUser(m.group)), usr |-> Len(recs) + 1]
             ELSE [udm |-> recs, usr |-> cur]
    ELSE [udm |-> recs, usr |-> cur]

\* the "A new record" branch: on a DN line, a new record that becomes the
\* active one, or no active record when the pattern does not match
newRecord(recs, cur, ln) ==
    IF Slice(ln, 0, 4) = DNKey
    THEN LET m == uidMatch(From(ln, 4))
         IN  IF m.ok
             THEN [udm |-> Append(recs, UdmUser(m.group)), usr |-> Len(recs) + 1]
             ELSE [udm |-> recs, usr |-> None]
    ELSE [udm |-> recs, usr |-> cur]

\* a mutant of mailForwardAddress: the value goes to the end of the list
mailForwardAddressAppend(mls, v) ==
    (IF v \in Range(mls) THEN ListRemove(mls, v) ELSE mls) \o <<v>>

\* the mailForwardAddress branch: remove the value if present, insert at 0
mailForwardAddress(mls, v) ==
    ListInsertFront(IF v \in Range(mls) THEN ListRemove(mls, v) ELSE mls, v)

\* a mutant of eMail: the value is appended whether present or not
eMailAlways(mls, v) == Append(mls, v)

\* the e-mail branch: append the value unless present
eMail(mls, v) == IF v \notin Range(mls) THEN Append(mls, v) ELSE mls

\* the "Parse Name and eMails" chain, on the active record
parseField(rec, ln) ==
    IF Slice(ln, 2, 14) = DisplayNameKey
    THEN [rec EXCEPT !.name = From(ln, 15)]
    ELSE IF Slice(ln, 2, 21) = MailForwardKey
    THEN [rec EXCEPT !.mls = mailForwardAddress(@, From(ln, 22))]
    ELSE IF Slice(ln, 2, 9) = EMailKey
    THEN [rec EXCEPT !.mls = eMail(@, From(ln, 10))]
    ELSE IF Slice(ln, 2, 8) = GecosKey
    THEN [rec EXCEPT !.gecos = From(ln, 9)]
    ELSE rec

\* one iteration of the loop over the lines, on the pair (udm, usr)
readLine(st, raw) ==
    LET ln == Strip(raw, {"\r", "\n"})
        nr == newRecord(st.udm, st.usr, ln)
    IN  IF nr.usr = None
        THEN nr
        ELSE [nr EXCEPT !.udm[nr.usr] = parseField(@, ln)]

\* the (udm, usr) pair after the first n lines of f
RECURSIVE readLines(_, _)
readLines(f, n) ==
    IF n = 0 THEN [udm |-> <<>>, usr |-> None]
    ELSE readLine(readLines(f, n - 1), f[n])

\* readUDM as a whole: the list it returns for the lines f
readUDM(f) == readLines(f, Len(f)).udm

----------------------------------------------------------------------------
(* udmMail and the loop of main that calls it.                             *)

\* a mutant of udmMailRec: the first matching record's uid is kept
udmMailRecFirst(user, udmuser) ==
    IF nameMatch(user.name, udmuser.name) \/ nameMatch(user.name, udmuser.gecos)
    THEN [user EXCEPT !.ucsnm = IF @ = <<>> THEN udmuser.uid ELSE @,
                      !.mls = @ \o udmuser.mls]
    ELSE user

\* the body of the loop of udmMail, for one record
udmMailRec(user, udmuser) ==
    IF nameMatch(user.name, udmuser.name) \/ nameMatch(user.name, udmuser.gecos)
    THEN [user EXCEPT !.ucsnm = udmuser.uid,
                      !.mls = @ \o udmuser.mls]
    ELSE user

\* udmMail(user, udm) over the first n records
RECURSIVE udmMailUpTo(_, _, _)
udmMailUpTo(user, recs, n) ==
    IF n = 0 THEN user
    ELSE udmMailRec(udmMailUpTo(user, recs, n - 1), recs[n])

\* udmMail(user, udm): the user object after the call
udmMail(user, recs) == udmMailUpTo(user, recs, Len(recs))

\* a mutant of udmMailUsers: one mls list shared by all MailUser objects
udmMailUsersShared(us, u, recs) ==
    LET r == udmMail(us[u], recs)
    IN  [i \in DOMAIN us |-> IF i = u THEN r ELSE [us[i] EXCEPT !.mls = r.mls]]

\* udmMail(user, udm) for user = users[u]: the list of users after the call
udmMailUsers(us, u, recs) == [us EXCEPT ![u] = udmMail(@, recs)]

----------------------------------------------------------------------------
(* Inputs.                                                                 *)

SeqsUpTo(S, n) == UNION {[1..k -> S] : k \in 0..n}

\* names
AUmlMueller == <<"U+00C4", ".", " ", "M", "U+00FC", "l", "l", "e", "r">>
AeMueller == <<"A", "e", ".", " ", "M", "u", "e", "l", "l", "e", "r">>
AEMueller == <<"A", "E", ".", " ", "M", "u", "e", "l", "l", "e", "r">>
DrBoLi == <<"D", "r", ".", " ", "B", "o", "-", "L", "i">>
BoLi == <<"B", "o", " ", "L", "i">>

\* mail addresses
MailA == <<"a", "@", "x">>
MailB == <<"b", "@", "x">>
MailC == <<"c", "@", "x">>

\* a field line of the dump: two spaces, the key, a space, the value
FieldLine(key, value) == <<" ", " ">> \o key \o <<" ">> \o value \o <<"\n">>

DisplayNameLine(nm) == FieldLine(DisplayNameKey, nm)
GecosLine(nm) == FieldLine(GecosKey, nm)
ForwardLine(ml) == FieldLine(MailForwardKey, ml)
EMailLine(ml) == FieldLine(EMailKey, ml)

Digits == <<"1", "2", "3", "4", "5", "6", "7", "8", "9">>

\* "DN: uid=u<k>,cn=u,dc=x"
DNLine(k) == DNKey \o UidKey \o <<"u", Digits[k]>> \o <<",", "c", "n", "=", "u", ",", "d", "c", "=", "x", "\n">>
\* "DN: uid=,dc=x": the uid segment is there and empty
DNEmptyUid == DNKey \o UidKey \o <<",", "d", "c", "=", "x", "\n">>
\* "DN: cn=a,uid=u9,dc=x": the uid segment is not the first of the DN
DNUidSecond == DNKey \o <<"c", "n", "=", "a", ",">> \o UidKey \o <<"u", "9", ",", "d", "c", "=", "x", "\n">>

\* SpecUDM: the lines an arbitrary dump is made of
UDMLines ==
    { DNLine(1), DNEmptyUid, DNUidSecond,
      DisplayNameLine(AUmlMueller), GecosLine(AeMueller),
      ForwardLine(MailA), ForwardLine(MailC), EMailLine(MailB), EMailLine(MailC) }

\* Spec: the name lines and the mail lines of a record block
NameOpts ==
    { <<>>, <<DisplayNameLine(AUmlMueller)>>, <<GecosLine(AeMueller)>>,
      <<DisplayNameLine(BoLi), GecosLine(AEMueller)>> }
MailOpts == { <<>>, <<ForwardLine(MailA), EMailLine(MailB)>> }

\* Spec: the dumps of n record blocks, the k-th with uid u<k>
RECURSIVE BlockFiles(_)
BlockFiles(n) ==
    IF n = 0 THEN {<<>>}
    ELSE {f \o <<DNLine(n)>> \o no \o mo :
              f \in BlockFiles(n - 1), no \in NameOpts, mo \in MailOpts}

RosterNames == {AUmlMueller, DrBoLi}

\* parseOrgData: a MailUser per member, in the order of the file
Rosters ==
    {[u \in 1..MaxUsers |-> MailUser(<<"g", "h", Digits[u]>>, names[u])] :
         names \in [1..MaxUsers -> RosterNames]}

NormAlphabet == {"D", "r", ".", " ", "-", "X", "U+00E4"}

----------------------------------------------------------------------------
(* The specifications.                                                     *)

\* main with a well-formed dump: parseOrgData has returned users, readUDM
\* is about to read the first line
Init ==
    /\ file \in UNION {BlockFiles(n) : n \in 0..MaxRecs}
    /\ users \in Rosters
    /\ pos = 1 /\ udm = <<>> /\ usr = None
    /\ visited = {}
    /\ pc = "readUDM"
    /\ nmIn = <<>> /\ nmOut = <<>>

\* main with an arbitrary dump
InitUDM ==
    /\ file \in SeqsUpTo(UDMLines, MaxLines)
    /\ users = <<MailUser(<<"g", "h", "1">>, AUmlMueller)>>
    /\ pos = 1 /\ udm = <<>> /\ usr = None
    /\ visited = {}
    /\ pc = "readUDM"
    /\ nmIn = <<>> /\ nmOut = <<>>

\* normalizeName on an arbitrary name
InitNorm ==
    /\ nmIn \in SeqsUpTo(NormAlphabet, MaxNameLen)
    /\ nmOut = <<>>
    /\ pc = "normalizeName"
    /\ file = <<>> /\ pos = 1 /\ udm = <<>> /\ usr = None
    /\ users = <<>> /\ visited = {}

\* readUDM: one iteration of "for ln in file"
ReadLine ==
    /\ pc = "readUDM"
    /\ pos <= Len(file)
    /\ LET st == readLine([udm |-> udm, usr |-> usr], file[pos])
       IN  udm' = st.udm /\ usr' = st.usr
    /\ pos' = pos + 1
    /\ UNCHANGED <<file, users, visited, pc, nmIn, nmOut>>

\* readUDM: the end of the file, "return udm"
ReturnUDM ==
    /\ pc = "readUDM"
    /\ pos > Len(file)
    /\ pc' = "udmMail"
    /\ UNCHANGED <<file, pos, udm, usr, users, visited, nmIn, nmOut>>

\* main: udmMail(user, udm) for one user.  main takes the users in list
\* order; here any user not yet visited may be next, list order included.
UdmMail(u) ==
    /\ pc = "udmMail"
    /\ u \notin visited
    /\ users' = udmMailUsers(users, u, udm)
    /\ visited' = visited \cup {u}
    /\ UNCHANGED <<file, pos, udm, usr, pc, nmIn, nmOut>>

\* a call of normalizeName(nmIn)
NormalizeName ==
    /\ pc = "normalizeName"
    /\ nmOut = <<>>
    /\ nmOut' = <<normalizeName(nmIn)>>
    /\ UNCHANGED <<file, pos, udm, usr, users, visited, pc, nmIn>>

Next ==
    \/ ReadLine
    \/ ReturnUDM
    \/ \E u \in DOMAIN users : UdmMail(u)

NextNorm == NormalizeName

Spec == Init /\ [][Next]_vars
SpecUDM == InitUDM /\ [][Next]_vars
SpecNorm == InitNorm /\ [][NextNorm]_vars

----------------------------------------------------------------------------
(* What the claims speak of, read off the lines of the dump.               *)

Max(S) == CHOOSE x \in S : \A y \in S : y <= x
Least(S) == CHOOSE x \in S : \A y \in S : x <= y

\* the lines readUDM has read
Read == 1..(pos - 1)

\* line p without its line end
Body(p) == Strip(file[p], {"\r", "\n"})

IsDN(p) == Slice(Body(p), 0, 4) = DNKey

\* line p is "DN: uid=<ID>,...": the uid segment comes first
UidFirst(p) ==
    /\ Slice(Body(p), 0, 8) = DNKey \o UidKey
    /\ "," \in Range(From(Body(p), 8))

\* line p is "DN: ...uid=<ID>,...": the uid segment is anywhere in the DN
UidAnywhere(p) ==
    /\ IsDN(p)
    /\ \E i \in 4..Len(Body(p)) :
           /\ Slice(Body(p), i, i + 4) = UidKey
           /\ "," \in Range(From(Body(p), i + 4))

\* the text between the first uid= of line p and the next comma
IdOf(p) ==
    LET b == Body(p)
        i == Least({j \in 4..Len(b) : Slice(b, j, j + 4) = UidKey})
        rest == From(b, i + 4)
    IN  SubSeq(rest, 1, Least({j \in DOMAIN rest : rest[j] = ","}) - 1)

\* the k-th line among the lines of S, in file order
Nth(S, k) == CHOOSE p \in S : Cardinality({q \in S : q <= p}) = k

IsForward(p) == Slice(Body(p), 2, 21) = MailForwardKey
IsEMail(p) == Slice(Body(p), 2, 9) = EMailKey
ForwardValue(p) == From(Body(p), 22)
EMailValue(p) == From(Body(p), 10)

\* the lines read so far that belong to record k: those after its DN line
\* and before the next DN line
LinesOf(k) ==
    LET s == Nth({p \in Read : UidFirst(p)}, k)
    IN  {q \in Read : q > s /\ \A p \in (s + 1)..q : ~IsDN(p)}

\* record r matches the roster name nm
RecMatches(nm, r) == nameMatch(nm, r.name) \/ nameMatch(nm, r.gecos)

\* the list l holds the list m as a run of consecutive entries
HoldsRun(l, m) ==
    \E k \in 0..Len(l) : k + Len(m) <= Len(l) /\ SubSeq(l, k + 1, k + Len(m)) = m

----------------------------------------------------------------------------
(* The claims.                                                             *)

\* C1: after udmMail has run for a roster entry, the entry's mail list
\* holds no address twice.
C1_MergedNoDup ==
    \A u \in visited : NoDup(users[u].mls)

\* C2 as stated: a roster entry "A-umlaut. M-u-umlaut-ller" and a record
\* with gecos "AE. Mueller" match by normalization, and udmMail gives the
\* entry that record's uid (the last such record's) and its mails.
C2_AEMuellerMatches ==
    \A u \in visited : \A i \in DOMAIN udm :
        (users[u].name = AUmlMueller /\ udm[i].gecos = AEMueller) =>
            /\ nameMatch(users[u].name, udm[i].gecos)
            /\ HoldsRun(users[u].mls, udm[i].mls)
            /\ (\A j \in (i + 1)..Len(udm) : ~RecMatches(users[u].name, udm[j]))
                   => users[u].ucsnm = udm[i].uid

\* C2 as amended: the same with gecos "Ae. Mueller", which is what the
\* table makes of the roster name.
C2_AeMuellerMatches ==
    \A u \in visited : \A i \in DOMAIN udm :
        (users[u].name = AUmlMueller /\ udm[i].gecos = AeMueller) =>
            /\ nameMatch(users[u].name, udm[i].gecos)
            /\ HoldsRun(users[u].mls, udm[i].mls)
            /\ (\A j \in (i + 1)..Len(udm) : ~RecMatches(users[u].name, udm[j]))
                   => users[u].ucsnm = udm[i].uid

\* udmMail has run for the entry and a record that matches by its gecos
\* "Ae. Mueller" alone gave its uid and its two mails
C2_Witness ==
    \E u \in visited : \E i \in DOMAIN udm :
        /\ users[u].name = AUmlMueller
        /\ udm[i].gecos = AeMueller /\ udm[i].name = <<>>
        /\ udm[i].mls = <<MailA, MailB>>
        /\ users[u].ucsnm = udm[i].uid
        /\ users[u].mls = <<MailA, MailB>>

\* C3: normalizing the result of normalizeName again changes nothing.
C3_Idempotent ==
    nmOut # <<>> => normalizeName(nmOut[1]) = nmOut[1]

\* C4: every record of the list readUDM builds has a non-empty uid.
C4_NonEmptyId ==
    \A k \in DOMAIN udm : udm[k].uid # <<>>

\* C5: in every record the forward values come first, the one read last
\* at position 0 and the others in reverse order of their last arrival,
\* then the e-mail values that are no forward value, in the order first
\* seen; and the lines forward a@x, e-mail b@x, forward c@x give
\* [c@x, a@x, b@x].
C5_ForwardFirst ==
    \A k \in DOMAIN udm :
        LET L == LinesOf(k)
            FL == {q \in L : IsForward(q)}
            EL == {q \in L : IsEMail(q)}
            F == {ForwardValue(q) : q \in FL}
            P == {EMailValue(q) : q \in EL} \ F
            lastF(v) == Max({q \in FL : ForwardValue(q) = v})
            firstE(v) == Least({q \in EL : EMailValue(q) = v})
            m == udm[k].mls
            s == Nth({p \in Read : UidFirst(p)}, k)
        IN  /\ Range(m) = F \cup P
            /\ Len(m) = Cardinality(F \cup P)
            /\ FL # {} => m[1] = ForwardValue(Max(FL))
            /\ \A i, j \in DOMAIN m : i < j =>
                   \/ m[i] \in F /\ m[j] \in P
                   \/ m[i] \in F /\ m[j] \in F /\ lastF(m[i]) > lastF(m[j])
                   \/ m[i] \in P /\ m[j] \in P /\ firstE(m[i]) < firstE(m[j])
            /\ ( /\ L = (s + 1)..(s + 3)
                 /\ file[s + 1] = ForwardLine(MailA)
                 /\ file[s + 2] = EMailLine(MailB)
                 /\ file[s + 3] = ForwardLine(MailC) )
                   => m = <<MailC, MailA, MailB>>

\* the record has read forward a@x, e-mail b@x, forward c@x
C5_Witness ==
    /\ pos = 5
    /\ SubSeq(file, 1, 4) = <<DNLine(1), ForwardLine(MailA), EMailLine(MailB),
                              ForwardLine(MailC)>>
    /\ udm[1].mls = <<MailC, MailA, MailB>>

\* C6: at every point of readUDM no record's mail list holds an address
\* twice.
C6_RecordNoDup ==
    \A k \in DOMAIN udm : NoDup(udm[k].mls)

\* the record has read c@x as e-mail, as forward and as e-mail again
C6_Witness ==
    /\ pos = 5
    /\ SubSeq(file, 1, 4) = <<DNLine(1), EMailLine(MailC), ForwardLine(MailC),
                              EMailLine(MailC)>>
    /\ udm[1].mls = <<MailC>>

\* C7: after udmMail has run for an entry, ucsnm is the uid of the last
\* record whose name or gecos matches the entry's name; with no such
\* record ucsnm is empty and the mail list is as it was, empty.
C7_LastMatchWins ==
    \A u \in visited :
        LET M == {i \in DOMAIN udm : RecMatches(users[u].name, udm[i])}
        IN  IF M = {}
            THEN users[u].ucsnm = <<>> /\ users[u].mls = <<>>
            ELSE users[u].ucsnm = udm[Max(M)].uid

\* one entry matched two records and has the second one's uid, another
\* entry matched none
C7_Witness ==
    /\ \E u \in visited :
           /\ Cardinality({i \in DOMAIN udm : RecMatches(users[u].name, udm[i])}) = 2
           /\ users[u].ucsnm = udm[2].uid
           /\ udm[1].uid # udm[2].uid
    /\ \E u \in visited :
           /\ \A i \in DOMAIN udm : ~RecMatches(users[u].name, udm[i])
           /\ users[u].ucsnm = <<>>

\* C8: reading a DN line without a uid to extract adds no record and
\* leaves no record active; while no record is active a line that is no
\* DN line changes no record; and a DN line with a uid to extract adds
\* one record, the active one, to the records so far.
C8_MalformedDN ==
    [][ (pc = "readUDM" /\ pos' = pos + 1) =>
          /\ (IsDN(pos) /\ ~UidFirst(pos)) =>
                 (usr' = None /\ udm' = udm /\ pc' = "readUDM")
          /\ (usr = None /\ ~IsDN(pos)) => (usr' = None /\ udm' = udm)
          /\ (IsDN(pos) /\ UidFirst(pos)) =>
                 /\ Len(udm') = Len(udm) + 1
                 /\ SubSeq(udm', 1, Len(udm)) = udm
                 /\ usr' = Len(udm') ]_vars

\* a record, a DN line without a uid to extract, a forward line that is
\* ignored, and a DN line that starts the second record
C8_Witness ==
    /\ pos = 5
    /\ SubSeq(file, 1, 4) = <<DNLine(1), DNUidSecond, ForwardLine(MailA), DNLine(1)>>
    /\ Len(udm) = 2 /\ udm[1].mls = <<>> /\ usr = 2

\* C9 as stated: every DN line with a uid segment anywhere in it has
\* started a record whose uid is the text between uid= and the next comma.
C9_UidAnywhere ==
    LET S == {p \in Read : UidAnywhere(p)}
    IN  /\ Len(udm) = Cardinality(S)
        /\ \A k \in 1..Cardinality(S) :
               k <= Len(udm) => udm[k].uid = IdOf(Nth(S, k))

\* C9 as amended: every DN line whose uid segment follows "DN: " at once
\* has started a record whose uid is the text between uid= and the next
\* comma, and no other line has started a record.
C9_UidFirst ==
    LET S == {p \in Read : UidFirst(p)}
    IN  /\ Len(udm) = Cardinality(S)
        /\ \A k \in 1..Cardinality(S) :
               k <= Len(udm) => udm[k].uid = IdOf(Nth(S, k))

\* two such lines have been read and each has started its record
C9_Witness ==
    /\ pos >= 3
    /\ file[1] = DNLine(1) /\ file[2] = DNLine(1)
    /\ Len(udm) >= 2
    /\ udm[1].uid = <<"u", "1">> /\ udm[2].uid = <<"u", "1">>

\* C10: whatever the order udmMail runs in, each entry it has run for is
\* what udmMail makes of that entry alone and the parsed records, each
\* other entry is as parseOrgData left it, and the records are as readUDM
\* returned them.
C10_Independent ==
    LET fresh(u) == MailUser(users[u].ghnm, users[u].name)
    IN  /\ pc = "readUDM" => \A u \in DOMAIN users : users[u] = fresh(u)
        /\ pc = "udmMail" =>
               LET recs == readUDM(file)
               IN  /\ udm = recs
                   /\ \A u \in DOMAIN users :
                          IF u \in visited
                          THEN users[u] = udmMail(fresh(u), recs)
                          ELSE users[u] = fresh(u)

\* udmMail has run for the second entry, which matched a record that the
\* first entry matches too, and not yet for the first
C10_Witness ==
    /\ visited = {2}
    /\ users[2].mls # <<>> /\ users[2].ucsnm # <<>>
    /\ \E i \in DOMAIN udm :
           RecMatches(users[1].name, udm[i]) /\ RecMatches(users[2].name, udm[i])
    /\ users[1].mls = <<>> /\ users[1].ucsnm = <<>>

====
